---- MODULE Spec2Model ----
(***************************************************************************)
(* Model of src/app.py: the flashcard response parser (parse_flashcards),  *)
(* the record exporter (export_flashcards) and the export section of main. *)
(* A Python str is a sequence of one-character strings.                    *)
(***************************************************************************)
EXTENDS Integers, Sequences, FiniteSets, TLC

VARIABLES text, lines, i, flashcards, current_q, branch, pc,
          format, payload, export_format, export_data, file_name, mime

vars == <<text, lines, i, flashcards, current_q, branch, pc,
          format, payload, export_format, export_data, file_name, mime>>

parserVars == <<text, lines, i, flashcards, current_q, branch>>
exportVars == <<format, payload, export_format, export_data, file_name, mime>>

(***************************************************************************)
(* Bounds of the model.                                                    *)
(***************************************************************************)
\* Largest number of lines of an input text.
MaxLines == 4
\* Largest number of records handed to the exporter.
MaxCards == 2

(***************************************************************************)
(* Python values.                                                          *)
(***************************************************************************)
\* The value None of current_q.
None == [none |-> TRUE]

\* The absent value of a model variable that the code has not assigned yet.
Unset == <<"unset">>

\* Characters removed by str.strip() with no argument.
Whitespace == {" ", "\t", "\n", "\r", "\f"}

\* The separator of text.split('\n').
Newline == "\n"

Q_ == <<"Q", ":">>
Question_ == <<"Q", "u", "e", "s", "t", "i", "o", "n", ":">>
A_ == <<"A", ":">>
Answer_ == <<"A", "n", "s", "w", "e", "r", ":">>

\* The tuple of prefixes of line.startswith(('Q:', 'Question:')).
QuestionPrefixes == <<Q_, Question_>>
\* The tuple of prefixes of line.startswith(('A:', 'Answer:')).
AnswerPrefixes == <<A_, Answer_>>

(***************************************************************************)
(* str operations used by the parser.                                      *)
(***************************************************************************)
\* s[k:] for 0 <= k
SliceFrom(s, k) == SubSeq(s, k + 1, Len(s))

RECURSIVE LStrip(_)
LStrip(s) ==
    IF s # << >> /\ Head(s) \in Whitespace THEN LStrip(Tail(s)) ELSE s

RECURSIVE RStrip(_)
RStrip(s) ==
    IF s # << >> /\ s[Len(s)] \in Whitespace
    THEN RStrip(SubSeq(s, 1, Len(s) - 1))
    ELSE s

\* s.strip()
Strip(s) == RStrip(LStrip(s))

\* s.startswith(p) for one prefix p
StartsWith(s, p) == Len(s) >= Len(p) /\ SubSeq(s, 1, Len(p)) = p

\* s.startswith(ps) for a tuple of prefixes ps
StartsWithAny(s, ps) == \E k \in 1..Len(ps) : StartsWith(s, ps[k])

\* Index of the first occurrence of character c in s, 0 when there is none.
RECURSIVE Find(_, _, _)
Find(s, c, k) ==
    IF k > Len(s) THEN 0
    ELSE IF s[k] = c THEN k
    ELSE Find(s, c, k + 1)

\* s.split(sep) for a one-character separator: always at least one piece.
RECURSIVE Split(_, _)
Split(s, sep) ==
    LET k == Find(s, sep, 1) IN
    IF k = 0 THEN <<s>>
    ELSE <<SubSeq(s, 1, k - 1)>> \o Split(SubSeq(s, k + 1, Len(s)), sep)

(***************************************************************************)
(* parse_flashcards: one iteration of the loop over the lines.             *)
(***************************************************************************)
\* Variant: a pending question counts only when its text is non-empty.
TruthyByQuestion(d) == d # None /\ d.question # << >>

\* Truth value of current_q: None is false, a dict with keys is true.
Truthy(d) == d # None

\* Variant: the slice is stored without trimming.
QuestionTextUntrimmed(line) == SliceFrom(line, 2)

\* line[2:].strip() of the question branch.
QuestionText(line) == Strip(SliceFrom(line, 2))

\* line[2:].strip() of the answer branch.
AnswerText(line) == Strip(SliceFrom(line, 2))

\* if line.startswith(('Q:', 'Question:')): ...
OnQuestion(fc, cq, line) ==
    [flashcards |-> IF Truthy(cq) THEN Append(fc, cq) ELSE fc,
     current_q  |-> [question |-> QuestionText(line), answer |-> << >>],
     branch     |-> "question"]

\* Variant: an answer marker with no pending question makes a record.
OnAnswerOrphanRecord(fc, cq, line) ==
    IF Truthy(cq)
    THEN [flashcards |-> Append(fc, [cq EXCEPT !.answer = AnswerText(line)]),
          current_q  |-> None,
          branch     |-> "answer"]
    ELSE [flashcards |-> Append(fc, [question |-> << >>,
                                     answer   |-> AnswerText(line)]),
          current_q  |-> cq,
          branch     |-> "answer_discarded"]

\* elif line.startswith(('A:', 'Answer:')): ...
OnAnswer(fc, cq, line) ==
    IF Truthy(cq)
    THEN [flashcards |-> Append(fc, [cq EXCEPT !.answer = AnswerText(line)]),
          current_q  |-> None,
          branch     |-> "answer"]
    ELSE [flashcards |-> fc, current_q |-> cq, branch |-> "answer_discarded"]

\* elif current_q: ... ; otherwise the line is skipped.
OnOther(fc, cq, line) ==
    IF Truthy(cq)
    THEN IF cq.answer = << >>
         THEN [flashcards |-> fc,
               current_q  |-> [cq EXCEPT !.question = @ \o <<" ">> \o line],
               branch     |-> "question_continued"]
         ELSE [flashcards |-> fc,
               current_q  |-> [cq EXCEPT !.answer = @ \o <<" ">> \o line],
               branch     |-> "answer_continued"]
    ELSE [flashcards |-> fc, current_q |-> cq, branch |-> "skipped"]

\* The body of the for loop, applied to one raw line.
LoopBody(fc, cq, raw) ==
    LET line == Strip(raw) IN
    IF StartsWithAny(line, QuestionPrefixes) THEN OnQuestion(fc, cq, line)
    ELSE IF StartsWithAny(line, AnswerPrefixes) THEN OnAnswer(fc, cq, line)
    ELSE OnOther(fc, cq, line)

\* Variant: the pending question is not flushed after the loop.
FlushDropsPending(fc, cq) == fc

\* if current_q: flashcards.append(current_q)   (after the loop)
Flush(fc, cq) == IF Truthy(cq) THEN Append(fc, cq) ELSE fc

(***************************************************************************)
(* Inputs of the parser.                                                   *)
(***************************************************************************)
\* The lines an input text is made of.
Lines ==
    { <<"Q", ":", " ", "x">>,
      <<"Q", ":">>,
      <<" ", "A", ":", " ", "y", " ">>,
      Question_ \o <<" ", "x">>,
      Answer_ \o <<" ", "y">>,
      <<"A", ":">>,
      <<"w">>,
      << >> }

RECURSIVE Join(_, _)
Join(ls, sep) ==
    IF Len(ls) = 1 THEN ls[1]
    ELSE ls[1] \o <<sep>> \o Join(Tail(ls), sep)

RECURSIVE SeqsOfLen(_, _)
SeqsOfLen(S, n) ==
    IF n = 0 THEN { << >> }
    ELSE { Append(s, x) : s \in SeqsOfLen(S, n - 1), x \in S }

Texts == { Join(ls, Newline) : ls \in UNION { SeqsOfLen(Lines, n) : n \in 1..MaxLines } }

(***************************************************************************)
(* The parser as a state machine.                                          *)
(***************************************************************************)
\* flashcards = [], current_q = None, and the lines of text.split('\n').
Init ==
    /\ text \in Texts
    /\ lines = Split(text, Newline)
    /\ i = 1
    /\ flashcards = << >>
    /\ current_q = None
    /\ branch = "none"
    /\ pc = "loop"
    /\ format = Unset /\ payload = Unset
    /\ export_format = Unset /\ export_data = Unset
    /\ file_name = Unset /\ mime = Unset

\* One iteration of `for line in text.split('\n')`.
ParseLine ==
    /\ pc = "loop"
    /\ i <= Len(lines)
    /\ LET r == LoopBody(flashcards, current_q, lines[i]) IN
         /\ flashcards' = r.flashcards
         /\ current_q' = r.current_q
         /\ branch' = r.branch
    /\ i' = i + 1
    /\ UNCHANGED <<text, lines, pc, exportVars>>

\* The loop is exhausted: flush the pending question and return.
ParseEnd ==
    /\ pc = "loop"
    /\ i > Len(lines)
    /\ flashcards' = Flush(flashcards, current_q)
    /\ pc' = "done"
    /\ UNCHANGED <<text, lines, i, current_q, branch, exportVars>>

Next == ParseLine \/ ParseEnd

Spec == Init /\ [][Next]_vars

(***************************************************************************)
(* export_flashcards.                                                      *)
(***************************************************************************)
\* The format values the function compares with.
json_ == <<"j", "s", "o", "n">>
csv_ == <<"c", "s", "v">>
anki_ == <<"a", "n", "k", "i">>

\* separator.join(parts)
RECURSIVE JoinStr(_, _)
JoinStr(parts, separator) ==
    IF parts = << >> THEN << >>
    ELSE IF Len(parts) = 1 THEN parts[1]
    ELSE parts[1] \o separator \o JoinStr(Tail(parts), separator)

\* The concatenation of the strings of a sequence.
Concat(parts) == JoinStr(parts, << >>)

\* json.dumps of one character inside a string (ensure_ascii, ASCII input).
JsonEscapeChar(c) ==
    CASE c = "\"" -> <<"\\", "\"">>
      [] c = "\\" -> <<"\\", "\\">>
      [] c = "\n" -> <<"\\", "n">>
      [] c = "\r" -> <<"\\", "r">>
      [] c = "\t" -> <<"\\", "t">>
      [] c = "\f" -> <<"\\", "f">>
      [] OTHER    -> <<c>>

\* json.dumps of a str.
JsonString(s) ==
    <<"\"">> \o Concat([k \in 1..Len(s) |-> JsonEscapeChar(s[k])]) \o <<"\"">>

\* json.dumps of one card at nesting level 1 with indent=2.
JsonCard(card) ==
    <<"{", "\n">>
    \o <<" ", " ", " ", " ", "\"", "q", "u", "e", "s", "t", "i", "o", "n", "\"", ":", " ">> \o JsonString(card.question) \o <<",", "\n">>
    \o <<" ", " ", " ", " ", "\"", "a", "n", "s", "w", "e", "r", "\"", ":", " ">> \o JsonString(card.answer)
    \o <<"\n", " ", " ", "}">>

\* Variant: the empty list is written as the empty string.
JsonDumpsEmptyBlank(cards) ==
    IF cards = << >> THEN << >>
    ELSE <<"[", "\n">>
         \o JoinStr([k \in 1..Len(cards) |-> <<" ", " ">> \o JsonCard(cards[k])],
                    <<",", "\n">>)
         \o <<"\n", "]">>

\* json.dumps(flashcards, indent=2)
JsonDumps(cards) ==
    IF cards = << >> THEN <<"[", "]">>
    ELSE <<"[", "\n">>
         \o JoinStr([k \in 1..Len(cards) |-> <<" ", " ">> \o JsonCard(cards[k])],
                    <<",", "\n">>)
         \o <<"\n", "]">>

\* Characters that make csv.writer quote a field (excel dialect,
\* QUOTE_MINIMAL): the delimiter, the quote character, the line terminator's.
CsvSpecial == {",", "\"", "\r", "\n"}

\* One field as csv.writer writes it, embedded quotes doubled.
CsvField(s) ==
    LET body == Concat([k \in 1..Len(s) |->
                          IF s[k] = "\"" THEN <<"\"", "\"">> ELSE <<s[k]>>])
    IN IF \E k \in 1..Len(s) : s[k] \in CsvSpecial
       THEN <<"\"">> \o body \o <<"\"">>
       ELSE body

\* writer.writerow(fields) for a row of two fields.
CsvRow(fields) ==
    JoinStr([k \in 1..Len(fields) |-> CsvField(fields[k])], <<",">>)
    \o <<"\r", "\n">>

\* The header row and one row per card.
CsvDump(cards) ==
    CsvRow(<<<<"Q", "u", "e", "s", "t", "i", "o", "n">>, <<"A", "n", "s", "w", "e", "r">>>>)
    \o Concat([k \in 1..Len(cards) |->
                 CsvRow(<<cards[k].question, cards[k].answer>>)])

\* f"{card['question']}\t{card['answer']}\n" for every card.
AnkiDump(cards) ==
    Concat([k \in 1..Len(cards) |->
              cards[k].question \o <<"\t">> \o cards[k].answer \o <<"\n">>])

\* Variant: an unknown format falls back to the JSON document.
export_flashcards_json_default(cards, fmt) ==
    IF fmt = csv_ THEN CsvDump(cards)
    ELSE IF fmt = anki_ THEN AnkiDump(cards)
    ELSE JsonDumps(cards)

export_flashcards(cards, fmt) ==
    IF fmt = json_ THEN JsonDumps(cards)
    ELSE IF fmt = csv_ THEN CsvDump(cards)
    ELSE IF fmt = anki_ THEN AnkiDump(cards)
    ELSE << >>

(***************************************************************************)
(* The export section of main.                                             *)
(***************************************************************************)
\* The options of st.selectbox("Select format", ...).
SelectOptions == {<<"J", "S", "O", "N">>, <<"C", "S", "V">>, <<"A", "n", "k", "i">>}

UpperCase == <<"A", "B", "C", "D", "E", "F", "G", "H", "I", "J", "K", "L", "M", "N", "O", "P", "Q", "R", "S", "T", "U", "V", "W", "X", "Y", "Z">>
LowerCase == <<"a", "b", "c", "d", "e", "f", "g", "h", "i", "j", "k", "l", "m", "n", "o", "p", "q", "r", "s", "t", "u", "v", "w", "x", "y", "z">>

\* str.lower() on ASCII text.
LowerChar(c) ==
    LET k == Find(UpperCase, c, 1) IN IF k = 0 THEN c ELSE LowerCase[k]
Lower(s) == [k \in 1..Len(s) |-> LowerChar(s[k])]

\* mime="text/plain" if export_format != 'json' else 'application/json'
MimeOf(selected) ==
    IF selected # json_ THEN "text/plain" ELSE "application/json"

\* file_name=f"flashcards.{export_format.lower()}"
FileNameOf(selected) == <<"f", "l", "a", "s", "h", "c", "a", "r", "d", "s", ".">> \o Lower(selected)

(***************************************************************************)
(* Inputs of the exporter.                                                 *)
(***************************************************************************)
\* Texts of the question and answer fields of a card.
Fields == { << >>, <<"x">>, <<"a", ",", "\"">>, <<" ", "\t", "y">> }

Cards == { [question |-> q, answer |-> a] : q \in Fields, a \in Fields }

CardSeqs == UNION { SeqsOfLen(Cards, n) : n \in 0..MaxCards }

\* The format arguments tried on export_flashcards.
FormatArgs == {json_, csv_, anki_, <<"x", "m", "l">>, <<"J", "S", "O", "N">>, << >>}

(***************************************************************************)
(* The exporter as a state machine.                                        *)
(***************************************************************************)
\* A record sequence is at hand (st.session_state.flashcards).
InitExport ==
    /\ text = Unset
    /\ lines = << >>
    /\ i = 1
    /\ flashcards \in CardSeqs
    /\ current_q = None
    /\ branch = "none"
    /\ pc = "done"
    /\ format = Unset /\ payload = Unset
    /\ export_format = Unset /\ export_data = Unset
    /\ file_name = Unset /\ mime = Unset

\* A call export_flashcards(flashcards, fmt).
Export ==
    /\ pc = "done"
    /\ \E fmt \in FormatArgs :
         /\ format' = fmt
         /\ payload' = export_flashcards(flashcards, fmt)
    /\ pc' = "exported"
    /\ UNCHANGED <<parserVars, export_format, export_data, file_name, mime>>

\* main: the format selector and the download button, shown when there are
\* flashcards.
OfferDownload ==
    /\ pc = "done"
    /\ flashcards # << >>
    /\ \E selected \in SelectOptions :
         /\ export_format' = selected
         /\ export_data' = export_flashcards(flashcards, Lower(selected))
         /\ file_name' = FileNameOf(selected)
         /\ mime' = MimeOf(selected)
    /\ pc' = "offered"
    /\ UNCHANGED <<parserVars, format, payload>>

NextExport == Export \/ OfferDownload

ExportSpec == InitExport /\ [][NextExport]_vars

(***************************************************************************)
(* Vocabulary of the properties, defined on the raw lines of the input.    *)
(***************************************************************************)
Last(s) == s[Len(s)]

\* The raw line is a question marker line / an answer marker line.
IsQuestionMarker(raw) ==
    StartsWith(Strip(raw), Q_) \/ StartsWith(Strip(raw), Question_)
IsAnswerMarker(raw) ==
    StartsWith(Strip(raw), A_) \/ StartsWith(Strip(raw), Answer_)
IsMarker(raw) == IsQuestionMarker(raw) \/ IsAnswerMarker(raw)

\* The trimmed remainder of a marker line after the prefix it starts with.
MarkerPayload(raw, prefixes) ==
    LET line == Strip(raw)
        p == CHOOSE q \in prefixes : StartsWith(line, q)
    IN Strip(SubSeq(line, Len(p) + 1, Len(line)))

QuestionPayload(raw) == MarkerPayload(raw, {Q_, Question_})
AnswerPayload(raw) == MarkerPayload(raw, {A_, Answer_})

\* A line of the short form `Q:` / `A:`.
ShortQ(raw) == StartsWith(Strip(raw), Q_)
ShortA(raw) == StartsWith(Strip(raw), A_)

\* Every marker line is of the short form, every `Q:` line is directly
\* followed by its `A:` line and every `A:` line directly follows a `Q:` line.
WellFormedPairs(ls) ==
    \A k \in 1..Len(ls) :
        /\ IsMarker(ls[k]) => ShortQ(ls[k]) \/ ShortA(ls[k])
        /\ ShortQ(ls[k]) => k < Len(ls) /\ ShortA(ls[k + 1])
        /\ ShortA(ls[k]) => k > 1 /\ ShortQ(ls[k - 1])

\* The records of the pairs of a well-formed text, in source order.
RECURSIVE PairsFrom(_, _)
PairsFrom(ls, k) ==
    IF k >= Len(ls) THEN << >>
    ELSE IF ShortQ(ls[k])
         THEN <<[question |-> MarkerPayload(ls[k], {Q_}),
                 answer   |-> MarkerPayload(ls[k + 1], {A_})]>>
              \o PairsFrom(ls, k + 2)
         ELSE PairsFrom(ls, k + 1)

\* Number of question marker lines among the first n lines.
QuestionMarkers(ls, n) == Cardinality({k \in 1..n : IsQuestionMarker(ls[k])})

\* The last marker line of the text is a question marker.
LastMarkerIsQuestion(ls) ==
    \E k \in 1..Len(ls) :
        /\ IsQuestionMarker(ls[k])
        /\ \A j \in (k + 1)..Len(ls) : ~IsMarker(ls[j])

\* A step of the loop is about to process lines[i].
AtLine == pc = "loop" /\ i <= Len(lines)

(***************************************************************************)
(* Properties of the parser.                                               *)
(***************************************************************************)
\* C1: for a text of N well-formed `Q:`/`A:` pairs on separate lines the
\* result is exactly the N records of the pairs, in source order, each field
\* the trimmed payload of its marker line.
C1_PairsParsedVerbatim ==
    pc = "done" /\ WellFormedPairs(lines) => flashcards = PairsFrom(lines, 1)

C1_Witness ==
    /\ pc = "done"
    /\ WellFormedPairs(lines)
    /\ Len(flashcards) = 2
    /\ flashcards[1].question # flashcards[2].question
    /\ flashcards[1].answer # flashcards[2].answer

\* C2: the text stored for a marker line is the trimmed remainder of the line
\* after the prefix that was recognized, for the short and the long forms.
C2_PayloadAfterRecognizedPrefix ==
    [][AtLine =>
          /\ IsQuestionMarker(lines[i]) =>
                current_q'.question = QuestionPayload(lines[i])
          /\ IsAnswerMarker(lines[i]) /\ current_q # None =>
                Last(flashcards').answer = AnswerPayload(lines[i])]_vars

\* C3: every record of the output has a non-empty question.
C3_QuestionNonEmpty ==
    \A k \in 1..Len(flashcards) : flashcards[k].question # << >>

\* C4: a question still pending when the input is exhausted is appended as
\* the last record, with an empty answer.
C4_TrailingQuestionKept ==
    pc = "done" /\ LastMarkerIsQuestion(lines) =>
        /\ flashcards # << >>
        /\ current_q # None
        /\ Last(flashcards) = current_q
        /\ Last(flashcards).answer = << >>

C4_Witness ==
    /\ pc = "done"
    /\ LastMarkerIsQuestion(lines)
    /\ Len(flashcards) >= 2
    /\ Last(flashcards).question # << >>

\* C5: an answer marker line processed while no question is pending leaves
\* the output sequence and the pending state unchanged.
C5_OrphanAnswerDiscarded ==
    [][AtLine /\ IsAnswerMarker(lines[i]) /\ current_q = None =>
          flashcards' = flashcards /\ current_q' = None]_vars

C5_Witness ==
    /\ i > 1
    /\ IsAnswerMarker(lines[i - 1])
    /\ branch = "answer_discarded"
    /\ current_q = None
    /\ flashcards # << >>

\* The finalized prefix of the output is kept by the step.
FinalizedPrefixKept ==
    /\ Len(flashcards') >= Len(flashcards)
    /\ SubSeq(flashcards', 1, Len(flashcards)) = flashcards

\* A non-marker line right after an answer marker line changes nothing, and
\* no step takes the answer continuation branch.
ContinuationAfterAnswerDiscarded ==
    /\ branch' # "answer_continued"
    /\ (i > 1 /\ i <= Len(lines) /\ IsAnswerMarker(lines[i - 1])
          /\ ~IsMarker(lines[i]))
         => flashcards' = flashcards /\ current_q' = current_q

\* Every answer of the output after the step is empty or the payload of one
\* answer marker line.
AnswersArePayloads ==
    \A k \in 1..Len(flashcards') :
        \/ flashcards'[k].answer = << >>
        \/ \E j \in 1..Len(lines) :
              /\ IsAnswerMarker(lines[j])
              /\ flashcards'[k].answer = AnswerPayload(lines[j])

\* C9: a finalized record is never changed by a later line, a non-marker line
\* after an answer marker line is discarded, the answer continuation branch
\* is never taken, and every answer is empty or the payload of one answer
\* marker line.
C9_FinalizedRecordsFrozen ==
    [][pc = "loop" =>
          /\ FinalizedPrefixKept
          /\ ContinuationAfterAnswerDiscarded
          /\ AnswersArePayloads]_vars

\* The part of C9 that does not depend on the payload of a marker line.
FinalizedRecordsNeverChange ==
    [][pc = "loop" =>
          FinalizedPrefixKept /\ ContinuationAfterAnswerDiscarded]_vars

\* C10: the records of the output plus the pending question, if any, are as
\* many as the question marker lines seen so far; the result has one record
\* per question marker line.
C10_OneRecordPerQuestionMarker ==
    /\ pc = "loop" =>
          Len(flashcards) + (IF current_q # None THEN 1 ELSE 0)
              = QuestionMarkers(lines, i - 1)
    /\ pc = "done" => Len(flashcards) = QuestionMarkers(lines, Len(lines))

C10_Witness ==
    /\ pc = "done"
    /\ Len(flashcards) = 2
    /\ \E j \in 1..Len(lines) : IsAnswerMarker(lines[j])
    /\ \E j \in 1..Len(lines) : ~IsMarker(lines[j])
    /\ \E k \in 1..Len(flashcards) : flashcards[k].question = << >>

(***************************************************************************)
(* Properties of the exporter and of the download offered by main.         *)
(***************************************************************************)
\* The header row of the tabular format.
HeaderRow == <<"Q", "u", "e", "s", "t", "i", "o", "n", ",", "A", "n", "s", "w", "e", "r", "\r", "\n">>

\* C6: for a format other than json, csv and anki the export is the empty
\* string, whatever the records are.
C6_UnknownFormatEmpty ==
    pc = "exported" /\ format \notin {json_, csv_, anki_} => payload = << >>

C6_Witness ==
    /\ pc = "exported"
    /\ format = <<"x", "m", "l">>
    /\ Len(flashcards) >= 2
    /\ payload = << >>

\* C7 as stated: the export of the empty sequence is the header row alone for
\* csv and the empty string for json and anki.
C7_EmptyExportAsStated ==
    pc = "exported" /\ flashcards = << >> =>
        /\ format = csv_ => payload = HeaderRow
        /\ format \in {json_, anki_} => payload = << >>

\* C7 (amended): the export of the empty sequence is the header row alone for
\* csv, the two characters `[]` for json and the empty string for anki.
C7_EmptyExport ==
    pc = "exported" /\ flashcards = << >> =>
        /\ format = csv_ => payload = HeaderRow
        /\ format = json_ => payload = <<"[", "]">>
        /\ format = anki_ => payload = << >>

C7_Witness ==
    /\ pc = "exported"
    /\ flashcards = << >>
    /\ format = json_
    /\ payload # << >>

\* C8: the download carries application/json when JSON is selected and
\* text/plain when CSV or Anki is selected.
C8_MimeMatchesFormat ==
    pc = "offered" =>
        /\ export_format = <<"J", "S", "O", "N">> => mime = "application/json"
        /\ export_format \in {<<"C", "S", "V">>, <<"A", "n", "k", "i">>} => mime = "text/plain"

====
